---- MODULE Spec2Model ----
(***************************************************************************)
(* Verification model of the Stone Soup tracking primitives:               *)
(*   - stonesoup/smoother/kalman.py   (Kalman-family smoothers)            *)
(*   - stonesoup/initiator/simple.py  (track initiators)                   *)
(*                                                                         *)
(* Linear algebra is modelled by terms: an input vector or matrix is a     *)
(* tagged pair <<tag, n>>, and the result of a computation is the tuple of *)
(* the operation's name and its operands, so that two results are equal    *)
(* exactly when the same computation was applied to the same operands.     *)
(***************************************************************************)
EXTENDS Integers, Sequences, FiniteSets, TLC

\* ------------------------------------------------------------------------
\* Bounds of the model
\* ------------------------------------------------------------------------
MaxTrackLen == 3
MaxIterations == 3
MaxDetections == 1
MaxTracks == 2
MaxCalls == 3
MaxCallsAnyClass == 2
MaxMinPoints == 2
MaxBatch == 2
MaxParticles == 3
MaxDim == 2
MaxUpdates == 2
MaxSurviving == 2
MaxBirth == 1
MaxHypotheses == 2
MaxCallsBefore == 1

\* ------------------------------------------------------------------------
\* Small helpers
\* ------------------------------------------------------------------------
Range(s) == {s[i] : i \in DOMAIN s}

Reverse(s) == [i \in 1..Len(s) |-> s[Len(s) + 1 - i]]

\* Python slice s[a:-1] with a >= 0 (0-based start, last element dropped)
SliceToLast(s, a) == IF a + 1 > Len(s) - 1 THEN <<>> ELSE SubSeq(s, a + 1, Len(s) - 1)

\* ========================================================================
\* State
\* ========================================================================
\* --- smoother/kalman.py, KalmanSmoother.smooth
VARIABLES
    variant,          \* which smoother class self is
    heap,             \* state objects: sequence of records, a reference is an index
    tracks,           \* track objects: sequence of state lists (lists of references)
    pc,               \* position inside smooth
    start,            \* local start
    subsq_state,      \* local subsq_state (a reference)
    smoothed_states,  \* local smoothed_states (list of references)
    todo,             \* the states the for loop has still to visit, in visiting order
    visited,          \* the per-iteration record of what each loop pass used
    result,           \* reference of the returned track object, 0 while none
    exc,              \* exception raised out of smooth, "none" while none
    track_in,         \* history: the input track's state list at the call
    heap_in           \* history: the heap at the call

smVars == <<variant, heap, tracks, pc, start, subsq_state, smoothed_states, todo,
            visited, result, exc, track_in, heap_in>>

\* --- smoother/kalman.py, the loop of StochasticIntegrationSmoother._smooth_gain
VARIABLES
    Nmin, Nmax, Eps,  \* the smoother's properties
    N,                \* number of iterations
    IPxx,             \* running cross-covariance (a rational)
    VPxx,             \* running error term (a rational)
    si_pc             \* "loop" while the while statement runs, "done" after it

siVars == <<Nmin, Nmax, Eps, N, IPxx, VPxx, si_pc>>

\* --- initiator/simple.py, the initiators
VARIABLES
    ini_class,            \* class of the initiator that creates the tracks
    wrappers,             \* representation-converting initiators around it, innermost first
    min_points,           \* MultiMeasurementInitiator.min_points
    updates_only,         \* MultiMeasurementInitiator.updates_only
    skip_non_reversible,  \* skip_non_reversible of the initiator
    measurement_model,    \* measurement_model of the initiator
    store,                \* track objects: sequence of records, a reference is an index
    holding_tracks,       \* MultiMeasurementInitiator.holding_tracks (set of references)
    sure_tracks,          \* what the last initiate call returned (set of references)
    ini_exc,              \* exception raised by the last initiate call, "none" if none
    calls,                \* number of initiate calls made
    released,             \* history: tracks returned by the calls before the last one
    held_before,          \* history: holding_tracks when the last call started
    failed_now,           \* history: held tracks failing the deleter's criteria in the last call
    failed,               \* history: held tracks that failed the criteria in some call
    promoted_now,         \* history: tracks moved to sure_tracks in the last call
    deleted_now,          \* history: tracks the deleter removed in the last call
    dropped,              \* history: tracks that failed the criteria in a call that did
                          \* not promote them
    supplied,             \* history: the detections the last initiate call was given
    last_call,            \* history: the associator's answer in the last call on a
                          \* multi-measurement initiator, the detections it marked as
                          \* associated and those it passed to the wrapped initiator
    diag_load,            \* SimpleMeasurementInitiator.diag_load
    number_particles,     \* GaussianParticleInitiator.number_particles
    ndim,                 \* number of rows of prior_state.state_vector
    init_exc              \* what __init__ ended with: "pending" before it ran, "none"
                          \* after it returned, else the exception it raised

inVars == <<ini_class, wrappers, min_points, updates_only, skip_non_reversible,
            measurement_model, store, holding_tracks, sure_tracks, ini_exc, calls,
            released, held_before, failed_now, failed, promoted_now, deleted_now,
            dropped, supplied, last_call, diag_load, number_particles, ndim, init_exc>>

\* the properties an initiator is constructed with
cfgVars == <<ini_class, wrappers, min_points, updates_only, skip_non_reversible,
             measurement_model, diag_load, number_particles, ndim>>

\* --- updater/particle.py, the particle updaters
VARIABLES
    updater_class,        \* class of the updater
    constraint_func,      \* whether a constraint function is configured
    resampler,            \* whether a resampler is configured
    regulariser,          \* whether a regulariser is configured
    nsurv_particles,      \* BernoulliParticleUpdater.nsurv_particles
    particle_weights,     \* weights of the particles of the last updated state
    update_hypothesis,    \* hypothesis of the last updated state (0: none yet)
    updates,              \* number of update calls made
    given,                \* history: the hypothesis the last update was given
    predicted,            \* history: the weights of the prediction of the last update
    zeroed,               \* history: particles the constraint zeroed in the last update
    total                 \* history: the sum the last update renormalised by

puVars == <<updater_class, constraint_func, resampler, regulariser, nsurv_particles,
            particle_weights, update_hypothesis, updates, given, predicted, zeroed, total>>

\* --- initiator/simple.py, initiate calls of two threads on one
\* MultiMeasurementInitiator; each is a function of the thread
VARIABLES
    th_pc,                \* where the call is: "idle", "loop", "check", "delete", "seed",
                          \* "returned", "raised"
    th_detections,        \* detections (after the filter of lines 284-286)
    th_associations,      \* associations (line 289)
    th_todo,              \* tracks the loop of line 292 has yet to reach
    th_track,             \* track of the current iteration (0: none)
    th_sure,              \* sure_tracks
    th_associated,        \* associated_detections
    th_exc,               \* exception the call ended with, "none" if none
    th_released,          \* history: tracks the call took out of holding_tracks at line 303
    th_deleted            \* history: tracks the call took out of holding_tracks at line 305

thVars == <<th_pc, th_detections, th_associations, th_todo, th_track, th_sure,
            th_associated, th_exc, th_released, th_deleted>>

\* --- initiator/simple.py, the initial covariance of SimpleMeasurementInitiator
VARIABLES
    prior_covar,          \* self.prior_state.covar, a matrix over the state dimensions
    mapped_dimensions,    \* measurement_model.mapping, the state dimensions measured
    noise,                \* the variance of the measurement noise in each of them
    cv_load,              \* self.diag_load
    C0,                   \* the covariance of the track's first state
    cv_pc                 \* "idle", "ready" before the covariance is formed, "done" after

cvVars == <<prior_covar, mapped_dimensions, noise, cv_load, C0, cv_pc>>

\* --- platform/base.py, attribute lookup on a Platform
VARIABLES
    own,                  \* what Base.__getattribute__(self, name) does for each name
    controller,           \* what getattr(controller, name) does for each name
    has_controller,       \* FALSE while the platform has no movement_controller set
    looked_up,            \* history: the name of the last lookup
    outcome               \* history: what the last lookup returned or raised

plVars == <<own, controller, has_controller, looked_up, outcome>>

vars == <<smVars, siVars, inVars, puVars, thVars, cvVars, plVars>>

\* ========================================================================
\* PART I.  smoother/kalman.py : KalmanSmoother.smooth
\* ========================================================================

Variants == {"KalmanSmoother", "ExtendedKalmanSmoother", "UnscentedKalmanSmoother",
             "StochasticIntegrationSmoother"}

\* self.transition_model of the smoother: a linear model for the linear smoother,
\* a general (non-linear) model for the other classes
SmootherModel(v) == IF v = "KalmanSmoother" THEN "F_smoother" ELSE "f_smoother"

LinearModels == {"F_smoother", "F_pred"}

NoHypothesis == [kind |-> "none", predictions |-> {}]

\* a prediction object as it is read by the smoother
PredictionOf(sv, cv, tm) == [state_vector |-> sv, covar |-> cv, transition_model |-> tm]

NonePrediction == PredictionOf(<<"None", 0>>, <<"None", 0>>, "none")

\* The shapes of filtered state an input track is built from
Shapes == {"GaussianState",            \* a plain prior, neither Prediction nor Update
           "Prediction",               \* GaussianStatePrediction without transition model
           "PredictionModel",          \* GaussianStatePrediction carrying its transition model
           "PredictionSingular",       \* GaussianStatePrediction with a singular covariance
           "Update",                   \* GaussianStateUpdate, SingleHypothesis with a prediction
           "UpdateNoPrediction",       \* GaussianStateUpdate, SingleHypothesis(None, detection)
           "UpdateMultiSame",          \* MultipleHypothesis, every hypothesis the same prediction
           "UpdateMultiDiff"}          \* MultipleHypothesis with two distinct predictions

IsPredictionShape(sh) == sh \in {"Prediction", "PredictionModel", "PredictionSingular"}

\* the i-th input state of shape sh with timestamp t
MkState(sh, i, t) ==
    [cls |-> IF sh = "GaussianState" THEN "GaussianState"
             ELSE IF IsPredictionShape(sh) THEN "GaussianStatePrediction"
             ELSE "GaussianStateUpdate",
     state_vector |-> <<"x", i>>,
     covar |-> IF sh = "PredictionSingular" THEN <<"Zero", i>> ELSE <<"P", i>>,
     timestamp |-> t,
     transition_model |-> IF sh = "PredictionModel" THEN "F_pred" ELSE "none",
     hypothesis |->
        CASE sh = "Update" ->
                [kind |-> "single",
                 predictions |-> {PredictionOf(<<"xp", i>>, <<"Pp", i>>, "F_pred")}]
          [] sh = "UpdateNoPrediction" ->
                [kind |-> "single", predictions |-> {}]
          [] sh = "UpdateMultiSame" ->
                [kind |-> "multiple",
                 predictions |-> {PredictionOf(<<"xp", i>>, <<"Pp", i>>, "none")}]
          [] sh = "UpdateMultiDiff" ->
                [kind |-> "multiple",
                 predictions |-> {PredictionOf(<<"xp", i>>, <<"Pp", i>>, "none"),
                                  PredictionOf(<<"xq", i>>, <<"Pq", i>>, "none")}]
          [] OTHER -> NoHypothesis]

\* timestamps of the input track: evenly spaced, or with growing gaps
TimeGrids == {"even", "growing"}
TimeAt(grid, i) == IF grid = "even" THEN i ELSE i * i

\* ------------------------------------------------------------------------
\* KalmanSmoother._prediction : [ok, exc, prediction]
\* ------------------------------------------------------------------------
Raise(e) == [ok |-> FALSE, exc |-> e, prediction |-> NonePrediction]
Return(p) == [ok |-> TRUE, exc |-> "none", prediction |-> p]

\* mutant: a MultipleHypothesis is read without comparing its predictions
_prediction_first_of_many(state) ==
    IF state.cls = "GaussianStatePrediction"
    THEN Return(PredictionOf(state.state_vector, state.covar, state.transition_model))
    ELSE IF state.cls = "GaussianStateUpdate"
    THEN IF state.hypothesis.predictions = {}
         THEN Return(NonePrediction)
         ELSE Return(CHOOSE p \in state.hypothesis.predictions : TRUE)
    ELSE Raise("TypeError")

\* mutant: the class of the state is not checked
_prediction_any_class(state) ==
    IF state.cls = "GaussianStateUpdate"
    THEN IF state.hypothesis.kind = "multiple"
         THEN IF Cardinality(state.hypothesis.predictions) = 1
              THEN Return(CHOOSE p \in state.hypothesis.predictions : TRUE)
              ELSE Raise("ValueError")
         ELSE IF state.hypothesis.predictions = {}
              THEN Return(NonePrediction)
              ELSE Return(CHOOSE p \in state.hypothesis.predictions : TRUE)
    ELSE Return(PredictionOf(state.state_vector, state.covar, state.transition_model))

_prediction(state) ==
    IF state.cls = "GaussianStatePrediction"
    THEN Return(PredictionOf(state.state_vector, state.covar, state.transition_model))
    ELSE IF state.cls = "GaussianStateUpdate"
    THEN IF state.hypothesis.kind = "multiple"
         THEN IF Cardinality(state.hypothesis.predictions) = 1
              THEN Return(CHOOSE p \in state.hypothesis.predictions : TRUE)
              ELSE Raise("ValueError")
         ELSE IF state.hypothesis.predictions = {}
              THEN Return(NonePrediction)
              ELSE Return(CHOOSE p \in state.hypothesis.predictions : TRUE)
    ELSE Raise("TypeError")

\* KalmanSmoother._transition_model : getattr(x, "transition_model", None) or self's
_transition_model(v, x) ==
    IF x.transition_model = "none" THEN SmootherModel(v) ELSE x.transition_model

\* ------------------------------------------------------------------------
\* _smooth_gain of the four classes : [exc, gain]
\* ------------------------------------------------------------------------
IsNone(prediction) == prediction = NonePrediction

\* A singular covariance matrix: the zero matrix, or a smoothed covariance
\* P + G (..) G^T of a singular P (G = P F^T S^-1 has its range inside P's)
RECURSIVE Singular(_)
Singular(covar) ==
    \/ covar[1] = "Zero"
    \/ covar[1] = "smooth_covar" /\ Singular(covar[2])

\* KalmanSmoother._transition_matrix / ExtendedKalmanSmoother._transition_matrix
_transition_matrix(v, state, model, dt) ==
    IF v = "ExtendedKalmanSmoother" /\ model \notin LinearModels
    THEN <<"jacobian", model, state.state_vector, dt>>
    ELSE <<"matrix", model, dt>>

\* prediction.covar / prediction.mean of None raises AttributeError; the
\* stochastic-integration class factorises state.covar (np.linalg.cholesky) and
\* every class inverts prediction.covar (np.linalg.inv), which raise LinAlgError
\* on a singular matrix.  The sigma-point step of the unscented class is taken
\* not to raise.
_smooth_gain(v, state, prediction, dt) ==
    IF IsNone(prediction) THEN [exc |-> "AttributeError", gain |-> <<"none", 0>>]
    ELSE IF v = "StochasticIntegrationSmoother" /\ Singular(state.covar)
    THEN [exc |-> "LinAlgError", gain |-> <<"none", 0>>]
    ELSE IF Singular(prediction.covar) THEN [exc |-> "LinAlgError", gain |-> <<"none", 0>>]
    ELSE [exc |-> "none",
          gain |->
            CASE v \in {"KalmanSmoother", "ExtendedKalmanSmoother"} ->
                    <<"gain", state.covar,
                      _transition_matrix(v, state, _transition_model(v, prediction), dt),
                      prediction.covar>>
              [] v = "UnscentedKalmanSmoother" ->
                    <<"gain_ut", state.state_vector, state.covar,
                      <<"function", _transition_model(v, prediction), dt>>,
                      prediction.covar>>
              [] v = "StochasticIntegrationSmoother" ->
                    <<"gain_si", state.state_vector, state.covar,
                      <<"function", _transition_model(v, state), dt>>,
                      prediction.state_vector, prediction.covar>>]

\* type(state).from_state(state, smooth_mean, smooth_covar)
from_state(state, mean, covar) ==
    [state EXCEPT !.state_vector = mean, !.covar = covar]

\* ------------------------------------------------------------------------
\* The call smooth(track): lines 176-183
\* ------------------------------------------------------------------------
InputTrack == tracks[1]

\* track[-1], line 182
LastState_first(track) == track[1]
LastState(track) == track[Len(track)]

ChooseStart_zero(track) == 0
ChooseStart(track) == IF _prediction(heap[track[1]]).ok THEN 0 ELSE 1

SmoothEnter ==
    /\ pc = "enter"
    /\ LET st == ChooseStart(InputTrack)
       IN /\ start' = st
          /\ subsq_state' = LastState(InputTrack)
          /\ smoothed_states' = <<LastState(InputTrack)>>
          /\ todo' = Reverse(SliceToLast(InputTrack, st))
    /\ pc' = "loop"
    /\ UNCHANGED <<variant, heap, tracks, visited, result, exc, track_in, heap_in>>
    /\ UNCHANGED <<siVars, inVars, puVars, thVars, cvVars, plVars>>

\* One pass of the for loop: lines 184-207
LoopBody(state_ref) ==
    LET state == heap[state_ref]
        subsq == heap[subsq_state]
        dt == subsq.timestamp - state.timestamp
        p == _prediction(subsq)
        g == _smooth_gain(variant, state, p.prediction, dt)
        smooth_mean == <<"smooth_mean", state.state_vector, g.gain,
                         subsq.state_vector, p.prediction.state_vector>>
        smooth_covar == <<"smooth_covar", state.covar, g.gain,
                          subsq.covar, p.prediction.covar>>
        new == Len(heap) + 1
    IN IF ~p.ok
       THEN /\ exc' = p.exc
            /\ pc' = "raised"
            /\ UNCHANGED <<heap, subsq_state, smoothed_states, todo, visited>>
       ELSE IF g.exc # "none"
       THEN /\ exc' = g.exc
            /\ pc' = "raised"
            /\ UNCHANGED <<heap, subsq_state, smoothed_states, todo, visited>>
       ELSE /\ heap' = Append(heap, from_state(state, smooth_mean, smooth_covar))
            /\ subsq_state' = new
            /\ smoothed_states' = <<new>> \o smoothed_states
            /\ todo' = Tail(todo)
            /\ visited' = Append(visited,
                                 [state |-> state_ref, subsq |-> subsq_state,
                                  prediction |-> p.prediction, time_interval |-> dt])
            /\ UNCHANGED <<pc, exc>>

SmoothIterate ==
    /\ pc = "loop"
    /\ todo # <<>>
    /\ LoopBody(Head(todo))
    /\ UNCHANGED <<variant, tracks, start, result, track_in, heap_in>>
    /\ UNCHANGED <<siVars, inVars, puVars, thVars, cvVars, plVars>>

\* lines 209-215: re-insert the skipped first state, shallow-copy the track
FinalStates == IF start = 1 THEN <<InputTrack[1]>> \o smoothed_states ELSE smoothed_states

\* copy.copy(track) followed by smoothed_track.states = smoothed_states: a new
\* track object holding the new list (the mutant writes the list into the input)
CopyTrack_inplace(states) == [tracks EXCEPT ![1] = states]
CopyTrack(states) == Append(tracks, states)

SmoothReturn ==
    /\ pc = "loop"
    /\ todo = <<>>
    /\ tracks' = CopyTrack(FinalStates)
    /\ result' = Len(tracks')
    /\ pc' = "returned"
    /\ UNCHANGED <<variant, heap, start, subsq_state, smoothed_states, todo, visited,
                   exc, track_in, heap_in>>
    /\ UNCHANGED <<siVars, inVars, puVars, thVars, cvVars, plVars>>

InitSmoothVars ==
    /\ variant \in Variants
    /\ \E n \in 1..MaxTrackLen, grid \in TimeGrids :
         \E shapes \in [1..n -> Shapes] :
            /\ heap = [i \in 1..n |-> MkState(shapes[i], i, TimeAt(grid, i))]
            /\ tracks = << [i \in 1..n |-> i] >>
    /\ pc = "enter"
    /\ start = 0
    /\ subsq_state = 0
    /\ smoothed_states = <<>>
    /\ todo = <<>>
    /\ visited = <<>>
    /\ result = 0
    /\ exc = "none"
    /\ track_in = tracks[1]
    /\ heap_in = heap

\* the smoother is not in use
IdleSmoothVars ==
    /\ variant = "KalmanSmoother"
    /\ heap = <<>>
    /\ tracks = <<>>
    /\ pc = "idle"
    /\ start = 0
    /\ subsq_state = 0
    /\ smoothed_states = <<>>
    /\ todo = <<>>
    /\ visited = <<>>
    /\ result = 0
    /\ exc = "none"
    /\ track_in = <<>>
    /\ heap_in = <<>>

\* ========================================================================
\* PART II.  smoother/kalman.py : the integration loop of
\*           StochasticIntegrationSmoother._smooth_gain (one state dimension)
\* ========================================================================

\* Rationals <<numerator, denominator>> in lowest terms, denominator > 0.
\* Intermediate results are bound as values ({f(x) : x \in {e}}) so that an
\* operand is evaluated once.
Abs(n) == IF n < 0 THEN -n ELSE n

RECURSIVE Gcd(_, _)
Gcd(a, b) == IF b = 0 THEN a ELSE CHOOSE g \in {Gcd(b, r) : r \in {a % b}} : TRUE

Reduce(n, d, g) == IF d < 0 THEN <<-(n \div g), -(d \div g)>> ELSE <<n \div g, d \div g>>

Rat(n, d) ==
    CHOOSE q \in {Reduce(x[1], x[2], x[3]) :
                    x \in {<<y[1], y[2], Gcd(Abs(y[1]), Abs(y[2]))>> : y \in {<<n, d>>}}} : TRUE

RAdd(p, q) == Rat(p[1] * q[2] + q[1] * p[2], p[2] * q[2])
RSub(p, q) == Rat(p[1] * q[2] - q[1] * p[2], p[2] * q[2])
RMul(p, q) == Rat(p[1] * q[1], p[2] * q[2])
RDivInt(p, n) == Rat(p[1], p[2] * n)
RGreater(p, q) == p[1] * q[2] > q[1] * p[2]

\* np.linalg.norm of a 1x1 matrix
Norm(p) == <<Abs(p[1]), p[2]>>

\* the values SumRPxx takes in a pass (cub_points_and_tf draws the points at random)
SumValues == {-1, 0, 2}

\* the while condition, line 388
LoopCondition_unbounded(n, v) == n < Nmin \/ RGreater(Norm(v), Eps)
LoopCondition_and(n, v) == n < Nmin /\ (n < Nmax /\ RGreater(Norm(v), Eps))
LoopCondition(n, v) == n < Nmin \/ (n < Nmax /\ RGreater(Norm(v), Eps))

\* one pass of the while loop, lines 388-404
SIIterate ==
    /\ si_pc = "loop"
    /\ LoopCondition(N, VPxx)
    /\ \E SumRPxx \in SumValues :
       \E n \in {N + 1} :
       \E diff \in {RSub(<<SumRPxx, 1>>, IPxx)} :
       \E DPxx \in {RDivInt(diff, n)} :
       \E scaled \in {RMul(<<n - 2, 1>>, VPxx)} :
       \E carried \in {RDivInt(scaled, n)} :
       \E square \in {RMul(DPxx, DPxx)} :
            /\ N' = n
            /\ IPxx' = RAdd(IPxx, DPxx)
            /\ VPxx' = RAdd(carried, square)
    /\ UNCHANGED <<Nmin, Nmax, Eps, si_pc>>
    /\ UNCHANGED <<smVars, inVars, puVars, thVars, cvVars, plVars>>

\* the loop is left, lines 405-408
SIExit ==
    /\ si_pc = "loop"
    /\ ~LoopCondition(N, VPxx)
    /\ si_pc' = "done"
    /\ UNCHANGED <<Nmin, Nmax, Eps, N, IPxx, VPxx>>
    /\ UNCHANGED <<smVars, inVars, puVars, thVars, cvVars, plVars>>

\* the values of Eps tried: 0, the default 5e-3, and 1
EpsValues == {<<0, 1>>, <<1, 200>>, <<1, 1>>}

InitSIVars ==
    /\ Nmin \in -1..MaxIterations
    /\ Nmax \in -1..MaxIterations
    /\ Eps \in EpsValues
    /\ N = 0
    /\ IPxx = <<0, 1>>
    /\ VPxx = <<0, 1>>
    /\ si_pc = "loop"

IdleSIVars ==
    /\ Nmin = 0
    /\ Nmax = 0
    /\ Eps = <<0, 1>>
    /\ N = 0
    /\ IPxx = <<0, 1>>
    /\ VPxx = <<0, 1>>
    /\ si_pc = "idle"

\* ========================================================================
\* PART III.  initiator/simple.py : the track initiators
\* ========================================================================

StatelessClasses == {"SinglePointInitiator", "SinglePointMeasurementInitiator",
                     "SimpleMeasurementInitiator"}
MultiClasses == {"MultiMeasurementInitiator", "NoHistoryMultiMeasurementInitiator"}

\* the compositions of wrapping initiators (ParticleGaussianInitiator takes a
\* ParticleInitiator, the others a GaussianInitiator)
WrapperStacks == {<<>>, <<"GaussianParticleInitiator">>, <<"GaussianMixtureInitiator">>,
                  <<"ASDGaussianInitiator">>, <<"EnsembleInitiator">>,
                  <<"GaussianParticleInitiator", "ParticleGaussianInitiator">>}

\* what detection.measurement_model can be
DetectionModels == {"None", "LinearModel", "ReversibleModel", "ReversibleNoInverse",
                    "NonLinearModel"}

Detection(n, m) == [n |-> n, measurement_model |-> m]

\* the hypothesis without measurement (a missed detection)
Missed == Detection(0, "None")

\* the sets of detections a call can be given (detections are numbered in the
\* order of their models, which leaves out nothing but renumberings)
ModelOrder == <<"None", "LinearModel", "ReversibleModel", "ReversibleNoInverse",
                "NonLinearModel">>

DetectionSetsUpTo(max) ==
    UNION {{{Detection(i, ModelOrder[f[i]]) : i \in 1..k} :
              f \in {g \in [1..k -> DOMAIN ModelOrder] :
                       \A i \in 1..k : \A j \in i..k : g[i] <= g[j]}} :
           k \in 0..max}

\* the batches given to a multi-measurement initiator and to the other classes
DetectionSets == DetectionSetsUpTo(MaxDetections)
DetectionBatches == DetectionSetsUpTo(MaxBatch)

\* states of a track: the class of the state and the call that made it
StateOf(type, call) == [type |-> type, call |-> call]

UpdateTypes == {"GaussianStateUpdate", "ParticleStateUpdate", "GaussianMixtureUpdate",
                "ASDGaussianStateUpdate", "EnsembleStateUpdate"}

\* isinstance(state, Update)
IsUpdate(state) == state.type \in UpdateTypes

TrackOf(id, states, holding_track) ==
    [id |-> id, states |-> states, holding_track |-> holding_track]

\* ------------------------------------------------------------------------
\* SinglePointMeasurementInitiator.initiate / SimpleMeasurementInitiator.initiate:
\* what happens to one detection (lines 100-126, 181-211)
\* ------------------------------------------------------------------------
Outcome_unskipped_inverse(det, own_model, skip) ==
    LET model == IF det.measurement_model # "None" THEN det.measurement_model
                 ELSE own_model
    IN CASE model = "None" -> "ValueError"
         [] model = "LinearModel" -> "track"
         [] model = "ReversibleModel" -> "track"
         [] model = "ReversibleNoInverse" -> "NotImplementedError"
         [] OTHER -> IF skip THEN "skip" ELSE "Exception"

Outcome(det, own_model, skip) ==
    LET model == IF det.measurement_model # "None" THEN det.measurement_model
                 ELSE own_model
    IN CASE model = "None" -> "ValueError"
         [] model = "LinearModel" -> "track"
         [] model = "ReversibleModel" -> "track"
         [] model = "ReversibleNoInverse" ->
                IF skip THEN "skip" ELSE "NotImplementedError"
         [] OTHER -> IF skip THEN "skip" ELSE "Exception"

\* SinglePointInitiator.initiate runs the updater on every detection (lines 62-71)
OutcomeOf(class, det, own_model, skip) ==
    IF class = "SinglePointInitiator" THEN "track" ELSE Outcome(det, own_model, skip)

\* the exceptions the loop over the detections can end with: that of the first
\* raising detection the set iteration meets
Raising(class, dets, own_model, skip) ==
    {OutcomeOf(class, d, own_model, skip) : d \in dets} \ {"track", "skip"}

\* the detections that get a track when no detection raises
Seeding(class, dets, own_model, skip) ==
    {d \in dets : OutcomeOf(class, d, own_model, skip) = "track"}

\* tracks.add(Track([state])) for n detections: n new track objects of one Update
RECURSIVE NewTracks(_, _, _)
NewTracks(st, n, call) ==
    IF n = 0 THEN st
    ELSE NewTracks(Append(st, TrackOf(Len(st) + 1,
                                      <<StateOf("GaussianStateUpdate", call)>>, 0)),
                   n - 1, call)

\* ------------------------------------------------------------------------
\* MultiMeasurementInitiator.initiate
\* ------------------------------------------------------------------------
\* lines 284-286
Filtered(dets) ==
    IF skip_non_reversible
    THEN {d \in dets : d.measurement_model \in
                         {"LinearModel", "ReversibleModel", "ReversibleNoInverse"}}
    ELSE dets

\* lines 293-298: the state a held track gains
Appended_update(track, hypothesis, call) ==
    [track EXCEPT !.states = Append(@, StateOf("GaussianStateUpdate", call))]
Appended(track, hypothesis, call) ==
    [track EXCEPT !.states =
        Append(@, IF hypothesis # Missed THEN StateOf("GaussianStateUpdate", call)
                  ELSE StateOf("GaussianStatePrediction", call))]

\* lines 300-301: the number of states that count towards min_points
Counted_all(states) == Len(states)
Counted(states) ==
    Cardinality({i \in DOMAIN states : ~updates_only \/ IsUpdate(states[i])})

Confirmed_late(states) == Counted(states) > min_points
Confirmed_early(states) == Counted(states) >= min_points - 1
Confirmed(states) == Counted(states) >= min_points

\* line 303: self.holding_tracks.remove(track)
Release_kept(holding, promoted) == holding
Release(holding, promoted) == holding \ promoted

\* line 305: self.holding_tracks -= self.deleter.delete_tracks(self.holding_tracks)
\* (failing: the held tracks that fail the deleter's criteria)
Prune_none(holding, failing) == holding
Prune(holding, failing) == holding \ (failing \cap holding)

\* lines 307-308: detections - associated_detections
Unconsumed_all(detections, associated) == detections
Unconsumed(detections, associated) == detections \ associated

\* the inner initiator: SimpleMeasurementInitiator(prior_state, measurement_model),
\* line 277 (its skip_non_reversible keeps the default False)
InnerClass == "SimpleMeasurementInitiator"
InnerSkip == FALSE

\* lines 280-310 for given answers of the associator (assoc) and of the deleter
\* (failing), and the exception e the inner initiator ends with
MultiInitiate(dets, assoc, failing, e) ==
    LET call == calls + 1
        detections == Filtered(dets)
        stepped == [r \in DOMAIN store |->
                      IF r \in holding_tracks THEN Appended(store[r], assoc[r], call)
                      ELSE store[r]]
        associated == {assoc[r] : r \in holding_tracks} \ {Missed}
        promoted == {r \in holding_tracks : Confirmed(stepped[r].states)}
        kept == Release(holding_tracks, promoted)
        pruned == Prune(kept, failing)
        passed == Unconsumed(detections, associated)
        seeds == Seeding(InnerClass, passed, measurement_model, InnerSkip)
        grown == IF e = "none" THEN NewTracks(stepped, Cardinality(seeds), call)
                 ELSE stepped
    IN [store |-> grown,
        holding |-> pruned \cup ((Len(stepped) + 1)..Len(grown)),
        sure |-> IF e = "none" THEN promoted ELSE {},
        promoted |-> promoted,
        deleted |-> kept \ pruned,
        associated |-> associated,
        passed |-> passed,
        exc |-> e]

\* the exceptions line 307 can end with
MultiRaising(dets, assoc) ==
    Raising(InnerClass,
            Unconsumed(Filtered(dets), {assoc[r] : r \in holding_tracks} \ {Missed}),
            measurement_model, InnerSkip)

OrNone(excs) == IF excs = {} THEN {"none"} ELSE excs

\* NoHistoryMultiMeasurementInitiator.initiate, lines 320-323: a new track object
\* with the same id, the last state alone, and the holding track in its metadata
Collapse_all(track, ref) == TrackOf(track.id, track.states, ref)
Collapse_first(track, ref) == TrackOf(track.id, <<track.states[1]>>, ref)
Collapse(track, ref) == TrackOf(track.id, <<track.states[Len(track.states)]>>, ref)

\* ------------------------------------------------------------------------
\* The representation-converting initiators: what they do to a returned track
\* ------------------------------------------------------------------------
ReplaceLast(track, type) ==
    [track EXCEPT !.states[Len(track.states)] = StateOf(type, @.call)]

\* number_particles when the initiator is given none, line 337
DefaultParticles == 200

\* numpy's squeeze: the axes of length one are removed from the shape
Squeeze(shape) == SelectSeq(shape, LAMBDA n : n # 1)

\* the shape of multivariate_normal.rvs(mean, covar, size=size) for a mean of dim
\* entries (lines 349-351, 385-387): the size x dim array of the draws, which SciPy
\* squeezes before it returns it
rvs(dim, size) == Squeeze(<<size, dim>>)

\* lines 354-356, 388-390: one particle for each item the iteration over samples
\* yields, that is one for each index of the first axis; a scalar cannot be
\* iterated over
Iterable(samples) == samples # <<>>
Particles(samples) == samples[1]

\* line 365, as the fraction 1 / number_particles
weight == <<1, number_particles>>

\* lines 391-396: the particle state that replaces the last state of the track
ParticleStateUpdate(call) ==
    [type |-> "ParticleStateUpdate", call |-> call,
     particles |-> Particles(rvs(ndim, number_particles)), weight |-> weight]

Convert(w, track) ==
    CASE w = "GaussianParticleInitiator" ->
            [track EXCEPT !.states[Len(track.states)] = ParticleStateUpdate(@.call)]
      [] w = "GaussianMixtureInitiator" ->
            [track EXCEPT !.states =
                [n \in DOMAIN @ |-> StateOf("GaussianMixtureUpdate", @[n].call)]]
      [] w = "ASDGaussianInitiator" -> ReplaceLast(track, "ASDGaussianStateUpdate")
      [] w = "EnsembleInitiator" -> ReplaceLast(track, "EnsembleStateUpdate")
      [] w = "ParticleGaussianInitiator" -> ReplaceLast(track, "GaussianState")

RECURSIVE ConvertAll(_, _)
ConvertAll(ws, track) ==
    IF ws = <<>> THEN track ELSE ConvertAll(Tail(ws), Convert(Head(ws), track))

\* the wrapping initiators rewrite the tracks the wrapped initiator returned
Wrapped(st, returned) ==
    [r \in DOMAIN st |-> IF r \in returned THEN ConvertAll(wrappers, st[r]) ELSE st[r]]

\* ------------------------------------------------------------------------
\* SimpleMeasurementInitiator.__init__, lines 172-176
\* ------------------------------------------------------------------------
\* the values diag_load is given (in units of the smallest of them)
DiagLoads == {-2, -1, 0, 1, 2}

\* line 174
InvalidLoad_zero(load) == load <= 0
InvalidLoad(load) == load < 0

SimpleMeasurementInit ==
    /\ ini_class = "SimpleMeasurementInitiator"
    /\ init_exc = "pending"
    /\ init_exc' = IF InvalidLoad(diag_load) THEN "ValueError" ELSE "none"
    /\ UNCHANGED <<cfgVars, store, holding_tracks, sure_tracks, ini_exc, calls,
                   released, held_before, failed_now, failed, promoted_now, deleted_now,
                   dropped, supplied, last_call>>
    /\ UNCHANGED <<smVars, siVars, puVars, thVars, cvVars, plVars>>

\* GaussianParticleInitiator.__init__, lines 343-361: the prior particle state is
\* drawn as the particles of a track are (the wrapped initiators all have a
\* prior_state, so that the AttributeError of line 353 does not arise)
GaussianParticleInit ==
    /\ "GaussianParticleInitiator" \in Range(wrappers)
    /\ init_exc = "pending"
    /\ init_exc' = IF Iterable(rvs(ndim, number_particles)) THEN "none" ELSE "TypeError"
    /\ UNCHANGED <<cfgVars, store, holding_tracks, sure_tracks, ini_exc, calls,
                   released, held_before, failed_now, failed, promoted_now, deleted_now,
                   dropped, supplied, last_call>>
    /\ UNCHANGED <<smVars, siVars, puVars, thVars, cvVars, plVars>>

\* an initiator whose construction is over, with the default diag_load and
\* number_particles
Constructed ==
    /\ diag_load = 0
    /\ number_particles = DefaultParticles
    /\ ndim = MaxDim
    /\ init_exc = "none"

\* ------------------------------------------------------------------------
\* initiate(detections, timestamp) of each class
\* ------------------------------------------------------------------------
\* SinglePointInitiator, SinglePointMeasurementInitiator, SimpleMeasurementInitiator
StatelessInitiate(class) ==
    /\ init_exc = "none"
    /\ calls < MaxCallsAnyClass
    /\ \E dets \in DetectionBatches :
       \E e \in OrNone(Raising(class, dets, measurement_model, skip_non_reversible)) :
         LET seeds == Seeding(class, dets, measurement_model, skip_non_reversible)
             grown == IF e = "none" THEN NewTracks(store, Cardinality(seeds), calls + 1)
                      ELSE store
             new == (Len(store) + 1)..Len(grown)
         IN /\ Len(grown) <= MaxTracks
            /\ store' = Wrapped(grown, new)
            /\ released' = released \cup sure_tracks
            /\ sure_tracks' = new
            /\ ini_exc' = e
            /\ supplied' = dets
    /\ calls' = calls + 1
    /\ UNCHANGED <<cfgVars, init_exc, holding_tracks, held_before, failed_now, failed,
                   promoted_now, deleted_now, dropped, last_call>>
    /\ UNCHANGED <<smVars, siVars, puVars, thVars, cvVars, plVars>>

SinglePointInitiate ==
    /\ ini_class = "SinglePointInitiator"
    /\ StatelessInitiate("SinglePointInitiator")

SinglePointMeasurementInitiate ==
    /\ ini_class = "SinglePointMeasurementInitiator"
    /\ StatelessInitiate("SinglePointMeasurementInitiator")

SimpleMeasurementInitiate ==
    /\ ini_class = "SimpleMeasurementInitiator"
    /\ StatelessInitiate("SimpleMeasurementInitiator")

ReturnSure(out) == [store |-> out.store, sure |-> out.sure]

\* the sure tracks in the order of their references
RECURSIVE SetToSeq(_)
SetToSeq(S) ==
    IF S = {} THEN <<>>
    ELSE LET m == CHOOSE x \in S : \A y \in S : x <= y
         IN <<m>> \o SetToSeq(S \ {m})

ReturnCollapsed(out) ==
    LET sure == SetToSeq(out.sure)
    IN [store |-> out.store \o [i \in 1..Len(sure) |-> Collapse(out.store[sure[i]], sure[i])],
        sure |-> (Len(out.store) + 1)..(Len(out.store) + Len(sure))]

\* the inputs of a call on the multi-measurement initiator and its effect on the
\* holding set; the call hands back [store, sure], collapsed by the history-free class
MultiCall(class, limit) ==
    /\ init_exc = "none"
    /\ calls < limit
    /\ ini_class = class
    /\ \E dets \in DetectionSets :
       \E assoc \in [holding_tracks -> Filtered(dets) \cup {Missed}] :
       \E failing \in SUBSET holding_tracks :
       \E e \in OrNone(MultiRaising(dets, assoc)) :
       \E out \in {MultiInitiate(dets, assoc, failing, e)} :
       \E back \in {IF class = "NoHistoryMultiMeasurementInitiator"
                    THEN ReturnCollapsed(out) ELSE ReturnSure(out)} :
            /\ Len(out.store) <= MaxTracks
            /\ store' = Wrapped(back.store, back.sure)
            /\ holding_tracks' = out.holding
            /\ released' = released \cup sure_tracks
            /\ sure_tracks' = back.sure
            /\ ini_exc' = e
            /\ held_before' = holding_tracks
            /\ failed_now' = failing
            /\ failed' = failed \cup failing
            /\ promoted_now' = out.promoted
            /\ deleted_now' = out.deleted
            /\ dropped' = dropped \cup (failing \ out.promoted)
            /\ supplied' = dets
            /\ last_call' = [associations |-> assoc, consumed |-> out.associated,
                             passed |-> out.passed]
    /\ calls' = calls + 1
    /\ UNCHANGED <<cfgVars, init_exc>>
    /\ UNCHANGED <<smVars, siVars, puVars, thVars, cvVars, plVars>>

MultiMeasurementInitiate ==
    /\ ini_class = "MultiMeasurementInitiator"
    /\ MultiCall("MultiMeasurementInitiator", MaxCalls)

\* the same call, as the inner call of a wrapping initiator
WrappedMultiMeasurementInitiate ==
    /\ ini_class = "MultiMeasurementInitiator"
    /\ MultiCall("MultiMeasurementInitiator", MaxCallsAnyClass)

NoHistoryMultiMeasurementInitiate ==
    /\ ini_class = "NoHistoryMultiMeasurementInitiator"
    /\ MultiCall("NoHistoryMultiMeasurementInitiator", MaxCallsAnyClass)

\* no call has been made on a multi-measurement initiator
NoCall == [associations |-> <<>>, consumed |-> {}, passed |-> {}]

InitiatorConfigured(classes, stacks) ==
    /\ ini_class \in classes
    /\ wrappers \in stacks
    /\ min_points \in IF ini_class \in MultiClasses THEN 1..MaxMinPoints ELSE {2}
    /\ updates_only \in IF ini_class \in MultiClasses THEN BOOLEAN ELSE {TRUE}
    /\ skip_non_reversible \in IF ini_class = "SinglePointInitiator" THEN {FALSE} ELSE BOOLEAN
    /\ measurement_model \in {"None", "LinearModel"}
    /\ store = <<>>
    /\ holding_tracks = {}
    /\ sure_tracks = {}
    /\ ini_exc = "none"
    /\ calls = 0
    /\ released = {}
    /\ held_before = {}
    /\ failed_now = {}
    /\ failed = {}
    /\ promoted_now = {}
    /\ deleted_now = {}
    /\ dropped = {}
    /\ supplied = {}
    /\ last_call = NoCall

IdleInitiatorVars ==
    /\ InitiatorConfigured({"SinglePointInitiator"}, {<<>>})
    /\ Constructed
    /\ measurement_model = "None"

\* ------------------------------------------------------------------------
\* MultiMeasurementInitiator.initiate called by two threads on one instance.
\* A step is what a thread does between two accesses to the holding set or to a
\* track; the calls on the associator, the updater, the deleter and the inner
\* initiator are taken as one step each.
\* ------------------------------------------------------------------------
Threads == {1, 2}

\* the number that tells the states of a thread's call from the others'
CallOf(t) == calls + t

Frame(changed) == [t \in Threads |-> changed]

\* the batches the threads' calls are given: detections with a linear model or
\* with none
ThreadDetectionSets ==
    {dets \in DetectionSets :
        \A d \in dets : d.measurement_model \in {"None", "LinearModel"}}

\* lines 280-290, up to the call on the associator, which reads the holding set
\* (the two threads being alike, thread 1 is taken to be the first to get there)
ThreadCall(t) ==
    /\ init_exc = "none"
    /\ th_pc[t] = "idle"
    /\ \A u \in Threads : u < t => th_pc[u] # "idle"
    /\ \E dets \in ThreadDetectionSets :
          /\ th_detections' = [th_detections EXCEPT ![t] = Filtered(dets)]
          /\ IF holding_tracks = {}
             THEN /\ th_pc' = [th_pc EXCEPT ![t] = "seed"]
                  /\ UNCHANGED <<th_associations, th_todo>>
             ELSE /\ \E assoc \in [holding_tracks -> Filtered(dets) \cup {Missed}] :
                        th_associations' = [th_associations EXCEPT ![t] = assoc]
                  /\ th_todo' = [th_todo EXCEPT ![t] = holding_tracks]
                  /\ th_pc' = [th_pc EXCEPT ![t] = "loop"]
    /\ UNCHANGED <<th_track, th_sure, th_associated, th_exc, th_released, th_deleted>>
    /\ UNCHANGED <<smVars, siVars, inVars, puVars, cvVars, plVars>>

\* lines 292-298: the next association of the loop
ThreadAppend(t) ==
    /\ th_pc[t] = "loop"
    /\ \E r \in th_todo[t] :
            /\ store' = [store EXCEPT ![r] = Appended(@, th_associations[t][r], CallOf(t))]
            /\ th_associated' =
                  [th_associated EXCEPT ![t] = @ \cup ({th_associations[t][r]} \ {Missed})]
            /\ th_todo' = [th_todo EXCEPT ![t] = @ \ {r}]
            /\ th_track' = [th_track EXCEPT ![t] = r]
    /\ th_pc' = [th_pc EXCEPT ![t] = "check"]
    /\ UNCHANGED <<th_detections, th_associations, th_sure, th_exc, th_released, th_deleted>>
    /\ UNCHANGED <<cfgVars, init_exc, holding_tracks, sure_tracks, ini_exc, calls, released,
                   held_before, failed_now, failed, promoted_now, deleted_now, dropped,
                   supplied, last_call>>
    /\ UNCHANGED <<smVars, siVars, puVars, cvVars, plVars>>

\* where the loop of line 292 goes on: to its next association or to line 305
LoopNext(t) == IF th_todo[t] = {} THEN "delete" ELSE "loop"

\* line 303: set.remove raises KeyError for an element that is not in the set
Removable_always(holding, track) == TRUE
Removable(holding, track) == track \in holding

\* lines 300-303
ThreadCheck(t) ==
    /\ th_pc[t] = "check"
    /\ IF ~Confirmed(store[th_track[t]].states)
       THEN /\ th_pc' = [th_pc EXCEPT ![t] = LoopNext(t)]
            /\ UNCHANGED <<holding_tracks, th_sure, th_exc, th_released>>
       ELSE /\ th_sure' = [th_sure EXCEPT ![t] = @ \cup {th_track[t]}]
            /\ IF Removable(holding_tracks, th_track[t])
               THEN /\ holding_tracks' = Release(holding_tracks, {th_track[t]})
                    /\ th_released' = [th_released EXCEPT ![t] = @ \cup {th_track[t]}]
                    /\ th_pc' = [th_pc EXCEPT ![t] = LoopNext(t)]
                    /\ UNCHANGED th_exc
               ELSE /\ th_exc' = [th_exc EXCEPT ![t] = "KeyError"]
                    /\ th_pc' = [th_pc EXCEPT ![t] = "raised"]
                    /\ UNCHANGED <<holding_tracks, th_released>>
    /\ UNCHANGED <<th_detections, th_associations, th_todo, th_track, th_associated,
                   th_deleted>>
    /\ UNCHANGED <<cfgVars, init_exc, store, sure_tracks, ini_exc, calls, released,
                   held_before, failed_now, failed, promoted_now, deleted_now, dropped,
                   supplied, last_call>>
    /\ UNCHANGED <<smVars, siVars, puVars, cvVars, plVars>>

\* line 305
ThreadDelete(t) ==
    /\ th_pc[t] = "delete"
    /\ \E failing \in SUBSET holding_tracks :
          /\ holding_tracks' = Prune(holding_tracks, failing)
          /\ th_deleted' = [th_deleted EXCEPT ![t] = @ \cup failing]
    /\ th_pc' = [th_pc EXCEPT ![t] = "seed"]
    /\ UNCHANGED <<th_detections, th_associations, th_todo, th_track, th_sure,
                   th_associated, th_exc, th_released>>
    /\ UNCHANGED <<cfgVars, init_exc, store, sure_tracks, ini_exc, calls, released,
                   held_before, failed_now, failed, promoted_now, deleted_now, dropped,
                   supplied, last_call>>
    /\ UNCHANGED <<smVars, siVars, puVars, cvVars, plVars>>

\* lines 307-310
ThreadSeed(t) ==
    /\ th_pc[t] = "seed"
    /\ LET unassociated == th_detections[t] \ th_associated[t]
       IN \E e \in OrNone(Raising(InnerClass, unassociated, measurement_model, InnerSkip)) :
          IF e = "none"
          THEN LET seeds == Seeding(InnerClass, unassociated, measurement_model, InnerSkip)
                   grown == NewTracks(store, Cardinality(seeds), CallOf(t))
               IN /\ Len(grown) <= MaxTracks
                  /\ store' = grown
                  /\ holding_tracks' = holding_tracks \cup ((Len(store) + 1)..Len(grown))
                  /\ th_pc' = [th_pc EXCEPT ![t] = "returned"]
                  /\ UNCHANGED th_exc
          ELSE /\ th_exc' = [th_exc EXCEPT ![t] = e]
               /\ th_pc' = [th_pc EXCEPT ![t] = "raised"]
               /\ UNCHANGED <<store, holding_tracks>>
    /\ UNCHANGED <<th_detections, th_associations, th_todo, th_track, th_sure,
                   th_associated, th_released, th_deleted>>
    /\ UNCHANGED <<cfgVars, init_exc, sure_tracks, ini_exc, calls, released,
                   held_before, failed_now, failed, promoted_now, deleted_now, dropped,
                   supplied, last_call>>
    /\ UNCHANGED <<smVars, siVars, puVars, cvVars, plVars>>

\* a call made, start to end, before the two threads make theirs
InitiateBefore ==
    /\ \A t \in Threads : th_pc[t] = "idle"
    /\ ini_class = "MultiMeasurementInitiator"
    /\ MultiCall("MultiMeasurementInitiator", MaxCallsBefore)

IdleThreads ==
    /\ th_pc = Frame("idle")
    /\ th_detections = Frame({})
    /\ th_associations = Frame(<<>>)
    /\ th_todo = Frame({})
    /\ th_track = Frame(0)
    /\ th_sure = Frame({})
    /\ th_associated = Frame({})
    /\ th_exc = Frame("none")
    /\ th_released = Frame({})
    /\ th_deleted = Frame({})

\* ========================================================================
\* PART IV.  updater/particle.py : the particle updaters, which the tests of
\* updater/tests/test_particle.py exercise; modelled from their contract
\* ========================================================================

\* weights are fractions; the quotient of zero by zero is not a number
NaN == <<0, 0>>
IsNaN(w) == w[2] = 0

FMul(p, q) == IF IsNaN(p) \/ IsNaN(q) THEN NaN ELSE RMul(p, q)
FAdd(p, q) == IF IsNaN(p) \/ IsNaN(q) THEN NaN ELSE RAdd(p, q)
FDiv(p, q) == IF IsNaN(p) \/ IsNaN(q) \/ q[1] = 0 THEN NaN
              ELSE Rat(p[1] * q[2], p[2] * q[1])

RECURSIVE FSum(_)
FSum(ws) == IF ws = <<>> THEN <<0, 1>> ELSE FAdd(Head(ws), FSum(Tail(ws)))

\* test_particle.py lines 67-76: particles of equal weight
Uniform(n) == [i \in 1..n |-> <<1, n>>]

\* the measurement likelihood of a particle, up to a common factor
Likelihoods == {<<1, 1>>, <<2, 1>>}

\* importance weights from the likelihood of each particle
Weighted(prior, likelihood) == [i \in DOMAIN prior |-> FMul(prior[i], likelihood[i])]

\* the weights of the particles failing the constraint are zeroed
Constrained(ws, failing) == [i \in DOMAIN ws |-> IF i \in failing THEN <<0, 1>> ELSE ws[i]]

\* renormalisation
Renormalise_skipped(ws) == ws
Renormalise(ws) == [i \in DOMAIN ws |-> FDiv(ws[i], FSum(ws))]

\* resampling draws as many particles of equal weight; from weights that are no
\* distribution its result is not determined
Resampled(ws) ==
    IF \E i \in DOMAIN ws : IsNaN(ws[i]) THEN {ws, Uniform(Len(ws))}
    ELSE {Uniform(Len(ws))}

\* ParticleUpdater.update(hypothesis): weight, constrain, renormalise, then
\* resample and regularise as configured (the regulariser moves the particles
\* and leaves their weights)
ParticleUpdate ==
    /\ updater_class = "ParticleUpdater"
    /\ updates < MaxUpdates
    /\ \E likelihood \in [DOMAIN particle_weights -> Likelihoods] :
       \E failing \in (IF constraint_func THEN SUBSET DOMAIN particle_weights ELSE {{}}) :
         LET constrained == Constrained(Weighted(particle_weights, likelihood), failing)
             normalised == Renormalise(constrained)
         IN /\ particle_weights' \in (IF resampler THEN Resampled(normalised)
                                      ELSE {normalised})
            /\ predicted' = particle_weights
            /\ zeroed' = failing
            /\ total' = FSum(constrained)
    /\ update_hypothesis' = updates + 1
    /\ given' = updates + 1
    /\ updates' = updates + 1
    /\ UNCHANGED <<updater_class, constraint_func, resampler, regulariser, nsurv_particles>>
    /\ UNCHANGED <<smVars, siVars, inVars, thVars, cvVars, plVars>>

\* the size of the particle set BernoulliParticleUpdater.update returns
Survivors_predicted(n_predicted) == n_predicted
Survivors(n_predicted) == nsurv_particles

\* BernoulliParticleUpdater.update(hypotheses): the prediction holds the surviving
\* and the birth particles; the update is resampled and regularised to a set of
\* fixed size and carries the multiple-hypothesis object it was given
BernoulliParticleUpdate ==
    /\ updater_class = "BernoulliParticleUpdater"
    /\ updates < MaxUpdates
    /\ \E nbirth \in 0..MaxBirth :
       \E nhypotheses \in 1..MaxHypotheses :
       \E failing \in (IF constraint_func
                       THEN SUBSET (1..(Len(particle_weights) + nbirth)) ELSE {{}}) :
         LET hypotheses == [id |-> updates + 1, size |-> nhypotheses]
         IN /\ predicted' = Uniform(Len(particle_weights) + nbirth)
            /\ particle_weights' = Uniform(Survivors(Len(particle_weights) + nbirth))
            /\ update_hypothesis' = hypotheses
            /\ given' = hypotheses
            /\ zeroed' = failing
    /\ total' = <<1, 1>>
    /\ updates' = updates + 1
    /\ UNCHANGED <<updater_class, constraint_func, resampler, regulariser, nsurv_particles>>
    /\ UNCHANGED <<smVars, siVars, inVars, thVars, cvVars, plVars>>

UpdaterConfigured(class, counts) ==
    /\ updater_class = class
    /\ constraint_func \in BOOLEAN
    /\ resampler \in (IF class = "ParticleUpdater" THEN BOOLEAN ELSE {TRUE})
    /\ regulariser \in BOOLEAN
    /\ nsurv_particles \in counts
    /\ \E n \in counts : particle_weights = Uniform(n)
    /\ update_hypothesis = 0
    /\ updates = 0
    /\ given = 0
    /\ predicted = <<>>
    /\ zeroed = {}
    /\ total = <<1, 1>>

IdleUpdaterVars ==
    /\ UpdaterConfigured("ParticleUpdater", {1})
    /\ ~constraint_func /\ ~resampler /\ ~regulariser

\* ========================================================================
\* PART V.  initiator/simple.py : the initial covariance that
\* SimpleMeasurementInitiator.initiate gives a track (lines 213-223), for a
\* linear measurement model that measures the mapped dimensions directly
\* ========================================================================
Dims == 1..MaxDim

\* the prior covariances tried: symmetric matrices with variances 1 or 2 and
\* covariances 0 or 1
PriorCovars ==
    {m \in [Dims -> [Dims -> 0..2]] :
        /\ \A i \in Dims : \A j \in Dims : m[i][j] = m[j][i]
        /\ \A i \in Dims : m[i][i] >= 1
        /\ \A i \in Dims : \A j \in Dims : i # j => m[i][j] <= 1}

\* line 222: inv_model_matrix @ model_covar @ inv_model_matrix.T, where the
\* model matrix has a row for each mapped dimension with a one in its column,
\* so that its pseudo-inverse is its transpose
Propagated(mapping, variance) ==
    [i \in Dims |-> [j \in Dims |-> IF i = j /\ i \in mapping THEN variance ELSE 0]]

\* line 221: prior_covar[mapped_dimensions, :] = 0
ZeroMapped(m, mapping) ==
    [i \in Dims |-> [j \in Dims |-> IF i \in mapping THEN 0 ELSE m[i][j]]]

\* np.diag(np.array([self.diag_load] * C0.shape[0]))
Diag(value) == [i \in Dims |-> [j \in Dims |-> IF i = j THEN value ELSE 0]]

MAdd(a, b) == [i \in Dims |-> [j \in Dims |-> a[i][j] + b[i][j]]]

\* lines 216-223
InitialCovariance ==
    /\ cv_pc = "ready"
    /\ C0' = MAdd(MAdd(Propagated(mapped_dimensions, noise),
                       ZeroMapped(prior_covar, mapped_dimensions)),
                  Diag(cv_load))
    /\ cv_pc' = "done"
    /\ UNCHANGED <<prior_covar, mapped_dimensions, noise, cv_load>>
    /\ UNCHANGED <<smVars, siVars, inVars, puVars, thVars, plVars>>

IdleCovarVars ==
    /\ prior_covar = Diag(1)
    /\ mapped_dimensions = Dims
    /\ noise = 1
    /\ cv_load = 0
    /\ C0 = Diag(0)
    /\ cv_pc = "idle"

\* ========================================================================
\* PART VI.  platform/base.py : Platform.__getattribute__ (lines 52-78)
\* ========================================================================
\* attribute names, as the sequences of their characters
Names == {<<"_", "x">>, <<"x">>, <<"x", "_">>, <<>>}

\* name.startswith("_")
StartsWithUnderscore(name) == Len(name) > 0 /\ name[1] = "_"

\* line 66: names that are not looked up on the controller
Private_never(name) == FALSE
Private(name) == StartsWithUnderscore(name)

\* lines 74-75: Base.__getattribute__(self, 'movement_controller') raises
\* AttributeError while the property is not set
ControllerLookup(name) ==
    IF has_controller THEN controller[name] ELSE "AttributeError"

\* lines 62-78: [kind, from] is what is returned ("value") or raised, and
\* the object it comes from
__getattribute__(name) ==
    IF own[name] = "value" THEN [kind |-> "value", from |-> "platform"]
    ELSE IF Private(name) THEN [kind |-> "AttributeError", from |-> "platform"]
    ELSE IF ControllerLookup(name) = "value"
    THEN [kind |-> "value", from |-> "controller"]
    ELSE IF ControllerLookup(name) = "AttributeError"
    THEN [kind |-> "AttributeError", from |-> "platform"]
    ELSE [kind |-> ControllerLookup(name), from |-> "controller"]

GetAttribute ==
    /\ outcome.kind # "idle"
    /\ \E name \in Names :
          /\ looked_up' = name
          /\ outcome' = __getattribute__(name)
    /\ UNCHANGED <<own, controller, has_controller>>
    /\ UNCHANGED <<smVars, siVars, inVars, puVars, thVars, cvVars>>

IdlePlatformVars ==
    /\ own = [n \in Names |-> "AttributeError"]
    /\ controller = [n \in Names |-> "AttributeError"]
    /\ has_controller = FALSE
    /\ looked_up = <<>>
    /\ outcome = [kind |-> "idle", from |-> "none"]

\* ========================================================================
\* Specifications
\* ========================================================================
InitSmooth == InitSmoothVars /\ IdleSIVars /\ IdleInitiatorVars /\ IdleUpdaterVars /\ IdleThreads /\ IdleCovarVars /\ IdlePlatformVars

NextSmooth == SmoothEnter \/ SmoothIterate \/ SmoothReturn

SpecSmooth == InitSmooth /\ [][NextSmooth]_vars

InitSI == InitSIVars /\ IdleSmoothVars /\ IdleInitiatorVars /\ IdleUpdaterVars /\ IdleThreads /\ IdleCovarVars /\ IdlePlatformVars

NextSI == SIIterate \/ SIExit

\* the loop is straight-line code of one thread: it always takes its next step
SpecSI == InitSI /\ [][NextSI]_vars /\ WF_vars(NextSI)

\* serial initiate calls on one MultiMeasurementInitiator
InitMulti ==
    /\ InitiatorConfigured({"MultiMeasurementInitiator"}, {<<>>})
    /\ Constructed
    /\ IdleSmoothVars /\ IdleSIVars /\ IdleUpdaterVars /\ IdleThreads /\ IdleCovarVars /\ IdlePlatformVars

NextMulti == MultiMeasurementInitiate

SpecMulti == InitMulti /\ [][NextMulti]_vars

\* serial initiate calls on an initiator of any class, wrapped or not
InitInitiators ==
    /\ InitiatorConfigured(StatelessClasses \cup MultiClasses, WrapperStacks)
    /\ Constructed
    /\ IdleSmoothVars /\ IdleSIVars /\ IdleUpdaterVars /\ IdleThreads /\ IdleCovarVars /\ IdlePlatformVars

NextInitiators ==
    \/ SinglePointInitiate
    \/ SinglePointMeasurementInitiate
    \/ SimpleMeasurementInitiate
    \/ WrappedMultiMeasurementInitiate
    \/ NoHistoryMultiMeasurementInitiate

SpecInitiators == InitInitiators /\ [][NextInitiators]_vars

\* two threads calling initiate on one MultiMeasurementInitiator, after serial calls
InitConcurrent ==
    /\ InitMulti
    /\ ~skip_non_reversible
    /\ measurement_model = "LinearModel"

NextConcurrent ==
    \/ InitiateBefore
    \/ \E t \in Threads : ThreadCall(t)
    \/ \E t \in Threads : ThreadAppend(t)
    \/ \E t \in Threads : ThreadCheck(t)
    \/ \E t \in Threads : ThreadDelete(t)
    \/ \E t \in Threads : ThreadSeed(t)

SpecConcurrent == InitConcurrent /\ [][NextConcurrent]_vars

\* construction of a SimpleMeasurementInitiator and the calls that follow it
InitSimple ==
    /\ InitiatorConfigured({"SimpleMeasurementInitiator"}, WrapperStacks)
    /\ diag_load \in DiagLoads
    /\ number_particles = DefaultParticles
    /\ ndim = MaxDim
    /\ init_exc = "pending"
    /\ IdleSmoothVars /\ IdleSIVars /\ IdleUpdaterVars /\ IdleThreads /\ IdleCovarVars /\ IdlePlatformVars

NextSimple == SimpleMeasurementInit \/ SimpleMeasurementInitiate

SpecSimple == InitSimple /\ [][NextSimple]_vars

\* updates by a standard particle updater, each on the prediction from the last
InitParticleUpdater ==
    /\ UpdaterConfigured("ParticleUpdater", {MaxSurviving + 1})
    /\ IdleSmoothVars /\ IdleSIVars /\ IdleInitiatorVars /\ IdleThreads /\ IdleCovarVars /\ IdlePlatformVars

NextParticleUpdater == ParticleUpdate

SpecParticleUpdater == InitParticleUpdater /\ [][NextParticleUpdater]_vars

\* updates by a Bernoulli particle updater, each on the prediction from the last
InitBernoulli ==
    /\ UpdaterConfigured("BernoulliParticleUpdater", 1..MaxSurviving)
    /\ IdleSmoothVars /\ IdleSIVars /\ IdleInitiatorVars /\ IdleThreads /\ IdleCovarVars /\ IdlePlatformVars

NextBernoulli == BernoulliParticleUpdate

SpecBernoulli == InitBernoulli /\ [][NextBernoulli]_vars

\* construction of a GaussianParticleInitiator around an initiator of any class
\* and the calls that follow it
InitParticles ==
    /\ InitiatorConfigured(StatelessClasses \cup MultiClasses,
                           {<<"GaussianParticleInitiator">>})
    /\ diag_load = 0
    /\ number_particles \in 1..MaxParticles
    /\ ndim \in 1..MaxDim
    /\ init_exc = "pending"
    /\ IdleSmoothVars /\ IdleSIVars /\ IdleUpdaterVars /\ IdleThreads /\ IdleCovarVars /\ IdlePlatformVars

NextParticles ==
    \/ GaussianParticleInit
    \/ SinglePointInitiate
    \/ SinglePointMeasurementInitiate
    \/ SimpleMeasurementInitiate
    \/ WrappedMultiMeasurementInitiate
    \/ NoHistoryMultiMeasurementInitiate

SpecParticles == InitParticles /\ [][NextParticles]_vars

\* the covariance of the first state of a track, for every prior covariance,
\* mapping, noise and diagonal load tried
InitCovar ==
    /\ prior_covar \in PriorCovars
    /\ mapped_dimensions \in (SUBSET Dims) \ {{}}
    /\ noise \in {1, 2}
    /\ cv_load \in {0, 1}
    /\ C0 = Diag(0)
    /\ cv_pc = "ready"
    /\ IdleSmoothVars /\ IdleSIVars /\ IdleInitiatorVars /\ IdleUpdaterVars
    /\ IdleThreads /\ IdlePlatformVars

NextCovar == InitialCovariance

SpecCovar == InitCovar /\ [][NextCovar]_vars

\* attribute lookups on a platform
\* a lookup on an object returns the value or raises AttributeError (no such
\* attribute, or a property whose getter raises it); getattr on the controller
\* can also end with another exception, raised by the getter of a property
InitPlatform ==
    /\ own \in [Names -> {"value", "AttributeError"}]
    /\ has_controller \in BOOLEAN
    /\ controller \in IF has_controller
                      THEN [Names -> {"value", "AttributeError", "ValueError"}]
                      ELSE {[n \in Names |-> "AttributeError"]}
    /\ looked_up = <<>>
    /\ outcome = [kind |-> "none", from |-> "none"]
    /\ IdleSmoothVars /\ IdleSIVars /\ IdleInitiatorVars /\ IdleUpdaterVars
    /\ IdleThreads /\ IdleCovarVars

NextPlatform == GetAttribute

SpecPlatform == InitPlatform /\ [][NextPlatform]_vars

\* ------------------------------------------------------------------------
\* Properties of KalmanSmoother.smooth
\* ------------------------------------------------------------------------
Returned == pc = "returned"
Terminated == pc \in {"returned", "raised"}

InLen == Len(track_in)
InState(i) == heap_in[track_in[i]]

\* the input state at position i is an Update whose MultipleHypothesis carries
\* more than one distinct prediction
MultiDivergent(i) ==
    /\ InState(i).cls = "GaussianStateUpdate"
    /\ InState(i).hypothesis.kind = "multiple"
    /\ Cardinality(InState(i).hypothesis.predictions) > 1

\* the input state at position i is neither a Gaussian prediction nor a Gaussian update
NotPredictionNorUpdate(i) ==
    InState(i).cls \notin {"GaussianStatePrediction", "GaussianStateUpdate"}

\* the prediction of the first input state can be looked up
FirstResolves == ~NotPredictionNorUpdate(1) /\ ~MultiDivergent(1)

\* the first position (1-based) whose prediction the recursion looks up
FirstLookedUp == IF FirstResolves THEN 2 ELSE 3

\* the input state at position i yields a prediction with an invertible covariance
\* and has itself an invertible covariance
Processable(i) ==
    \/ /\ InState(i).cls = "GaussianStatePrediction"
       /\ InState(i).covar[1] # "Zero"
    \/ /\ InState(i).cls = "GaussianStateUpdate"
       /\ Cardinality(InState(i).hypothesis.predictions) = 1

\* C1: smooth returns a track with as many states as the input, and output state i
\* has the timestamp of input state i, for every non-empty input track.
C1_SameLengthAndTimestamps ==
    Returned =>
        /\ Len(tracks[result]) = InLen
        /\ \A i \in 1..InLen : heap[tracks[result][i]].timestamp = InState(i).timestamp

\* C6: the last state of the returned track is the input track's last state object,
\* with its mean, covariance and timestamp unchanged, for every smoother class.
C6_FinalStateUnchanged ==
    Returned =>
        LET out == tracks[result]
        IN /\ out[Len(out)] = track_in[InLen]
           /\ heap[out[Len(out)]] = InState(InLen)

C6_Witness ==
    /\ Returned
    /\ InLen >= 2
    /\ Len(visited) >= 1
    /\ variant = "StochasticIntegrationSmoother"

\* C7: smooth leaves its input unmodified: the input track holds the same sequence
\* of state objects, none of them has changed, and the returned track is another
\* track object with a state list of its own.
C7_InputUnmodified ==
    /\ tracks[1] = track_in
    /\ \A r \in Range(track_in) : heap[r] = heap_in[r]
    /\ Returned => (result # 1 /\ result \in DOMAIN tracks)

C7_Witness ==
    /\ Returned
    /\ Len(visited) >= 2
    /\ tracks[result] # track_in

\* C8 as stated: smooth fails with a value error whenever the track contains, at any
\* index, an update with more than one distinct prediction; no track is returned.
C8_Original ==
    (Terminated /\ \E i \in 1..InLen : MultiDivergent(i)) =>
        (pc = "raised" /\ exc = "ValueError")

\* C8 amended: when the track holds an update with more than one distinct prediction
\* at a position whose prediction the recursion looks up (the second state onwards,
\* the third onwards when the first state's prediction cannot be resolved), smooth
\* returns no track; it fails with a value error when every later state is a
\* Gaussian prediction or update with a resolvable prediction of invertible covariance.
C8_ValueErrorWhenLookedUp ==
    \A i \in 1..InLen :
        (Terminated /\ i >= FirstLookedUp /\ MultiDivergent(i)) =>
            /\ pc = "raised"
            /\ result = 0
            /\ (\A j \in (i + 1)..InLen : Processable(j)) => exc = "ValueError"

C8_Witness ==
    /\ pc = "raised"
    /\ exc = "ValueError"
    /\ InLen = 3
    /\ MultiDivergent(2)
    /\ Processable(3)
    /\ FirstResolves

\* C9 as stated: smooth fails with a type error whenever a state after the first is
\* neither a Gaussian prediction nor a Gaussian update, for every length >= 2.
C9_Original ==
    (Terminated /\ \E i \in 2..InLen : NotPredictionNorUpdate(i)) =>
        (pc = "raised" /\ exc = "TypeError")

\* C9 amended: when a state that is neither a Gaussian prediction nor a Gaussian
\* update stands at a position whose prediction the recursion looks up (the second
\* state onwards, the third onwards when the first state's prediction cannot be
\* resolved), smooth returns no track; it fails with a type error when every later
\* state is a Gaussian prediction or update with a resolvable prediction of
\* invertible covariance.
C9_TypeErrorWhenLookedUp ==
    \A i \in 1..InLen :
        (Terminated /\ i >= FirstLookedUp /\ NotPredictionNorUpdate(i)) =>
            /\ pc = "raised"
            /\ result = 0
            /\ (\A j \in (i + 1)..InLen : Processable(j)) => exc = "TypeError"

C9_Witness ==
    /\ pc = "raised"
    /\ exc = "TypeError"
    /\ InLen = 3
    /\ NotPredictionNorUpdate(3)
    /\ ~FirstResolves
    /\ Len(visited) = 0

\* ------------------------------------------------------------------------
\* Properties of the stochastic integration loop
\* ------------------------------------------------------------------------
\* C10: the integration loop terminates for every Nmin, Nmax, Eps and every sequence
\* of error values, and it has made at least Nmin passes when it ends.
C10_TerminatesAfterNmin ==
    /\ <>(si_pc = "done")
    /\ [](si_pc = "done" => N >= Nmin)

C10_Witness ==
    /\ si_pc = "done"
    /\ Nmin = 3
    /\ N = 3
    /\ Nmax = 1
    /\ ~RGreater(Norm(VPxx), Eps)

\* ------------------------------------------------------------------------
\* Properties of the initiators
\* ------------------------------------------------------------------------
UpdateCount(r) ==
    Cardinality({i \in DOMAIN store[r].states : IsUpdate(store[r].states[i])})

StateCount(r) == Len(store[r].states)

\* C2 as stated: whatever min_points and updates_only are, a returned track holds at
\* least min_points Update states.
C2_Original ==
    \A r \in sure_tracks : UpdateCount(r) >= min_points

\* C2 amended: a returned track holds at least min_points Update states when
\* updates_only is set, and at least min_points states of any kind when it is not.
C2_PromotedOnlyAtMinPoints ==
    \A r \in sure_tracks :
        /\ updates_only => UpdateCount(r) >= min_points
        /\ ~updates_only => StateCount(r) >= min_points

C2_Witness ==
    /\ ini_class = "MultiMeasurementInitiator"
    /\ \E r \in sure_tracks : /\ ~updates_only
                              /\ StateCount(r) = min_points
                              /\ UpdateCount(r) < min_points

\* C3 as stated: a held track that fails the deleter's criteria in a call, judged
\* after the call's state was appended, is out of the holding set and is returned
\* neither by that call nor by a later one.
C3_Original ==
    \A r \in failed : r \notin holding_tracks /\ r \notin sure_tracks

\* C3 amended: a held track that fails the deleter's criteria in a call that does
\* not promote it is removed from the holding set by that call and is returned
\* neither by that call nor by a later one.
C3_UnpromotedFailingDropped ==
    /\ (failed_now \ promoted_now) \subseteq deleted_now
    /\ \A r \in dropped : r \notin holding_tracks /\ r \notin sure_tracks

C3_Witness ==
    /\ ini_class = "MultiMeasurementInitiator"
    /\ calls = 3
    /\ dropped # {}
    /\ failed_now = {}
    /\ sure_tracks # {}

\* C4: a call returns only tracks confirmed in that call, a returned track has left
\* the holding set and is returned by no other call, and a held track that the
\* call neither promotes nor deletes is still held after it.
C4_ReturnedOnceHeldOtherwise ==
    /\ sure_tracks \subseteq promoted_now
    /\ promoted_now \subseteq held_before
    /\ sure_tracks \cap holding_tracks = {}
    /\ sure_tracks \cap released = {}
    /\ (held_before \ (promoted_now \cup deleted_now)) \subseteq holding_tracks

C4_Witness ==
    /\ ini_class = "MultiMeasurementInitiator"
    /\ calls = 3
    /\ released # {}
    /\ sure_tracks # {}
    /\ held_before \cap holding_tracks = {}

\* C5 as stated: every track returned by initiate, of every initiator class and
\* under every wrapping initiator, holds exactly one state.
C5_Original ==
    \A r \in sure_tracks : StateCount(r) = 1

\* C5 amended: every track returned by the single-point, single-point-measurement,
\* simple-measurement and history-free multi-measurement initiators, wrapped or not,
\* holds exactly one state; a track returned by the multi-measurement initiator,
\* wrapped or not, holds at least two.
C5_OneStateExceptMultiMeasurement ==
    \A r \in sure_tracks :
        IF ini_class = "MultiMeasurementInitiator"
        THEN StateCount(r) >= 2
        ELSE StateCount(r) = 1

C5_Witness ==
    /\ ini_class = "NoHistoryMultiMeasurementInitiator"
    /\ wrappers # <<>>
    /\ \E r \in sure_tracks :
          /\ store[r].holding_track # 0
          /\ StateCount(store[r].holding_track) >= 2
          /\ StateCount(r) = 1

\* ------------------------------------------------------------------------
\* Properties of the initiators that map a measurement into state space
\* ------------------------------------------------------------------------
MappingClasses == {"SinglePointMeasurementInitiator", "SimpleMeasurementInitiator"}

\* the model a detection is processed with: its own, else the initiator's
Resolved(d) ==
    IF d.measurement_model # "None" THEN d.measurement_model ELSE measurement_model

\* the supplied detections that skip_non_reversible passes over, the ones that
\* can be mapped into state space, and the ones that have no model at all
Incompatible == {d \in supplied : Resolved(d) \in {"NonLinearModel", "ReversibleNoInverse"}}
Mappable == {d \in supplied : Resolved(d) \in {"LinearModel", "ReversibleModel"}}
Modelless == {d \in supplied : Resolved(d) = "None"}

\* C11 as stated: with skip_non_reversible set, a call on either class raises
\* nothing for an incompatible model and returns one track for each supplied
\* detection that was not skipped.
C11_Original ==
    (ini_class \in MappingClasses /\ skip_non_reversible /\ calls > 0) =>
        /\ ini_exc \notin {"Exception", "NotImplementedError"}
        /\ Cardinality(sure_tracks) = Cardinality(supplied \ Incompatible)

\* C11 amended: with skip_non_reversible set, a call on either class raises
\* nothing for an incompatible model; when it returns it returns one track for
\* each supplied detection with a linear or invertible model, the others having
\* been skipped; and the only error it can end with is the value error for a
\* detection without any model, which leaves the whole batch without tracks.
C11_SkippedIndividually ==
    (ini_class \in MappingClasses /\ skip_non_reversible /\ calls > 0) =>
        /\ ini_exc \in {"none", "ValueError"}
        /\ ini_exc = "none" => /\ Modelless = {}
                               /\ Cardinality(sure_tracks) = Cardinality(Mappable)
        /\ ini_exc = "ValueError" => Modelless # {} /\ sure_tracks = {}

C11_Witness ==
    /\ ini_class \in MappingClasses
    /\ skip_non_reversible
    /\ ini_exc = "none"
    /\ Incompatible # {}
    /\ Cardinality(sure_tracks) = 1
    /\ Cardinality(Mappable) = 1

\* C12: a call on a SinglePointMeasurementInitiator, a SimpleMeasurementInitiator or
\* a MultiMeasurementInitiator with its default inner initiator, whatever
\* skip_non_reversible is, ends with a value error whenever one of the supplied
\* detections has no measurement model and the initiator has none either.
C12_ValueErrorOnMissingModel ==
    (/\ ini_class \in MappingClasses \cup {"MultiMeasurementInitiator"}
     /\ calls > 0
     /\ Modelless # {}) => ini_exc = "ValueError"

\* C13: constructing a SimpleMeasurementInitiator fails with a value error exactly
\* when diag_load is negative, and succeeds for every diag_load of zero or more.
C13_NegativeLoadRejected ==
    (ini_class = "SimpleMeasurementInitiator" /\ init_exc # "pending") =>
        /\ diag_load < 0 => init_exc = "ValueError"
        /\ diag_load >= 0 => init_exc = "none"

C13_Witness ==
    /\ ini_class = "SimpleMeasurementInitiator"
    /\ diag_load = 0
    /\ init_exc = "none"
    /\ calls = 1
    /\ sure_tracks # {}

\* ------------------------------------------------------------------------
\* Properties of NoHistoryMultiMeasurementInitiator.initiate
\* ------------------------------------------------------------------------
\* C14: for each track its parent confirms in a call, a history-free
\* multi-measurement initiator returns a track with the same id and exactly one
\* state, the final state of the confirmed holding track, and the whole holding
\* track, earlier states included, is reachable from the returned track's metadata.
C14_CollapsedToFinalState ==
    (ini_class = "NoHistoryMultiMeasurementInitiator" /\ wrappers = <<>>
        /\ ini_exc = "none") =>
        /\ \A h \in promoted_now :
              Cardinality({r \in sure_tracks : store[r].holding_track = h}) = 1
        /\ \A r \in sure_tracks :
              /\ store[r].holding_track \in promoted_now
              /\ store[r].id = store[store[r].holding_track].id
              /\ store[r].states =
                    <<store[store[r].holding_track].states[StateCount(store[r].holding_track)]>>
              /\ StateCount(store[r].holding_track) >= 2

C14_Witness ==
    /\ ini_class = "NoHistoryMultiMeasurementInitiator"
    /\ wrappers = <<>>
    /\ \E r \in sure_tracks :
          /\ store[r].holding_track \in promoted_now
          /\ store[r].states[1] # store[store[r].holding_track].states[1]
          /\ store[r].states[1].type = "GaussianStatePrediction"

\* ------------------------------------------------------------------------
\* Properties of GaussianParticleInitiator.initiate
\* ------------------------------------------------------------------------
LastStateOf(r) == store[r].states[StateCount(r)]

\* C15: for every number_particles of 1 or more, each track returned by
\* GaussianParticleInitiator.initiate ends in a particle state of exactly
\* number_particles particles, each of weight 1 / number_particles, so that the
\* weights sum to 1.
C15_ParticleCountAndWeights ==
    (wrappers = <<"GaussianParticleInitiator">> /\ number_particles >= 1) =>
        \A r \in sure_tracks :
            /\ LastStateOf(r).type = "ParticleStateUpdate"
            /\ LastStateOf(r).particles = number_particles
            /\ LastStateOf(r).weight = <<1, number_particles>>
            /\ RMul(<<LastStateOf(r).particles, 1>>, LastStateOf(r).weight) = <<1, 1>>

\* ------------------------------------------------------------------------
\* Properties of the particle updaters
\* ------------------------------------------------------------------------
WeightSum == FSum(particle_weights)

C17_FixedSizeAndHypothesis ==
    (updater_class = "BernoulliParticleUpdater" /\ updates > 0) =>
        /\ Len(particle_weights) = nsurv_particles
        /\ update_hypothesis = given

C17_Witness ==
    /\ updater_class = "BernoulliParticleUpdater"
    /\ updates > 0
    /\ Len(predicted) > nsurv_particles
    /\ Len(particle_weights) = nsurv_particles
    /\ update_hypothesis.size = MaxHypotheses

\* ------------------------------------------------------------------------
\* Properties of concurrent calls on one MultiMeasurementInitiator
\* ------------------------------------------------------------------------
OtherThread(t) == CHOOSE u \in Threads : u # t

\* the calls that appended a state to a track
AppendedBy(r) == {t \in Threads : \E i \in DOMAIN store[r].states :
                                      store[r].states[i].call = CallOf(t)}

\* C18: two calls running at once on one MultiMeasurementInitiator can both
\* append to the same held track, and the one that comes second to release it
\* fails: a call ends with KeyError only on a track of its own associations that
\* the other call has taken out of the holding set, every track a call has
\* confirmed and not released makes that call fail, and so no track is released
\* twice or returned by both calls.
C18_SecondReleaseFails ==
    /\ \A t \in Threads :
          /\ th_exc[t] = "KeyError" =>
                /\ th_track[t] \in DOMAIN th_associations[t]
                /\ th_track[t] \in th_released[OtherThread(t)] \cup th_deleted[OtherThread(t)]
                /\ th_track[t] \notin holding_tracks
          /\ th_sure[t] \ th_released[t] # {} => th_exc[t] = "KeyError"
    /\ (\A t \in Threads : th_pc[t] = "returned") => th_sure[1] \cap th_sure[2] = {}
    /\ th_released[1] \cap th_released[2] = {}

C18_Witness ==
    \E t \in Threads :
        /\ th_exc[t] = "KeyError"
        /\ th_pc[OtherThread(t)] = "returned"
        /\ th_track[t] \in th_sure[OtherThread(t)]
        /\ AppendedBy(th_track[t]) = Threads

\* ------------------------------------------------------------------------
\* C19, C20: the transition model inside the gain, the iteration count
\* ------------------------------------------------------------------------
\* the transition model a gain was computed with
ModelOfGain(gain) ==
    IF gain[1] = "gain" THEN gain[3][2] ELSE gain[4][2]

\* the gain inside the smoothed state made by the i-th pass of the loop
GainOfPass(i) == heap[Len(heap_in) + i].state_vector[3]

\* C19: the gain of every pass of the loop, in every smoother class, is computed
\* with the transition model of the prediction resolved from state k+1 when
\* that prediction has one, and with the smoother's own model otherwise.
C19_GainUsesPredictionModel ==
    \A i \in DOMAIN visited :
        ModelOfGain(GainOfPass(i)) =
            IF visited[i].prediction.transition_model # "none"
            THEN visited[i].prediction.transition_model
            ELSE SmootherModel(variant)

IndexOfPass(i) == Len(track_in) - i

\* the smoothed state made by the i-th pass
SmoothedByPass(i) == Len(heap_in) + i

\* C21: the passes of the loop take the states in descending index order; the
\* pass for index k reads the input state k, the already smoothed state k+1
\* (the input state only when k+1 is the final index) and the prediction that
\* belongs to the input state k+1, and the interval given to the gain is
\* timestamp(k+1) - timestamp(k).
C21_BackwardRecursion ==
    \A i \in DOMAIN visited :
        LET k == IndexOfPass(i)
            state == heap_in[track_in[k]]
            next == heap_in[track_in[k + 1]]
        IN /\ k >= 1
           /\ visited[i].state = track_in[k]
           /\ visited[i].subsq = (IF i = 1 THEN track_in[Len(track_in)]
                                  ELSE SmoothedByPass(i - 1))
           /\ visited[i].prediction = _prediction(next).prediction
           /\ visited[i].time_interval = next.timestamp - state.timestamp

\* resolving the prediction of the first input state raises
FirstFails == ~_prediction(heap_in[track_in[1]]).ok

\* C22: when the prediction of the first state cannot be resolved, a call that
\* returns has put that same state object, unmodified, at index 0 of the
\* output, has not smoothed it, and has smoothed every other state but the
\* final one, one pass each; no pass of the loop, in any call, takes the first
\* state as the subsequent state whose prediction is looked up.
C22_FirstStateCopiedThrough ==
    /\ \A i \in DOMAIN visited :
          /\ visited[i].subsq # track_in[1] \/ Len(track_in) = 1
          /\ IndexOfPass(i) + 1 >= 2
    /\ (pc = "returned" /\ FirstFails) =>
          /\ tracks[result][1] = track_in[1]
          /\ heap[track_in[1]] = heap_in[track_in[1]]
          /\ \A i \in DOMAIN visited : visited[i].state # track_in[1]
          /\ \A k \in 2..(Len(track_in) - 1) :
                /\ \E i \in DOMAIN visited : visited[i].state = track_in[k]
                /\ tracks[result][k] = SmoothedByPass(Len(track_in) - k)

C22_Witness ==
    /\ pc = "returned"
    /\ FirstFails
    /\ Len(track_in) = 3
    /\ Len(visited) = 1
    /\ tracks[result][2] = SmoothedByPass(1)

\* ------------------------------------------------------------------------
\* C23, C24: what a call does with the associations and with the detections
\* ------------------------------------------------------------------------
\* the states a track gained in the last call
GainedNow(r) == {i \in DOMAIN store[r].states : store[r].states[i].call = calls}

\* the measurements of the hypotheses that carry one
RealMeasurements ==
    {last_call.associations[r] : r \in held_before} \ {Missed}

\* C23: after every call on a multi-measurement initiator, each track that was
\* held when the call started, and so was given a hypothesis, has gained
\* exactly one state, at its end: an Update made by this call when its
\* hypothesis carries a measurement, the predicted state otherwise; the
\* detections marked as associated are exactly those measurements.
C23_OneStatePerAssociation ==
    calls > 0 =>
        /\ \A r \in held_before :
              LET states == store[r].states
              IN /\ GainedNow(r) = {Len(states)}
                 /\ states[Len(states)].type =
                       IF last_call.associations[r] # Missed
                       THEN "GaussianStateUpdate" ELSE "GaussianStatePrediction"
                 /\ last_call.associations[r] # Missed =>
                       last_call.associations[r] \in last_call.consumed
        /\ last_call.consumed = RealMeasurements

C23_Witness ==
    /\ calls > 0
    /\ \E r \in held_before : last_call.associations[r] # Missed
    /\ \E r \in held_before : last_call.associations[r] = Missed

\* C24: after every call on a multi-measurement initiator, the detections handed
\* to the wrapped initiator are exactly those that passed the model filter and
\* are the measurement of no held track's hypothesis in this call, whether or
\* not that track was promoted or deleted in the call; no detection is both
\* the measurement of an appended Update and handed on.
C24_SeedsAreUnassociated ==
    calls > 0 =>
        /\ last_call.passed = Filtered(supplied) \ RealMeasurements
        /\ \A r \in held_before :
              last_call.associations[r] # Missed =>
                  last_call.associations[r] \notin last_call.passed

C24_Witness ==
    /\ calls > 0
    /\ \E r \in promoted_now \cup deleted_now :
          /\ last_call.associations[r] # Missed
          /\ last_call.associations[r] \in Filtered(supplied)
          /\ last_call.associations[r] \notin last_call.passed

\* ------------------------------------------------------------------------
\* C25: the optional model filter
\* ------------------------------------------------------------------------
\* the detections of the last call that went on to the association or to the
\* wrapped initiator
KeptByFilter == last_call.consumed \cup last_call.passed

\* C25: with skip_non_reversible set, a call on a multi-measurement initiator
\* keeps exactly the supplied detections whose measurement model, their own or
\* else the initiator's, is linear or reversible, and discards the others.
C25_FilterKeepsLinearAndReversible ==
    (calls > 0 /\ skip_non_reversible) =>
        KeptByFilter =
            {d \in supplied : Resolved(d) \in
                {"LinearModel", "ReversibleModel", "ReversibleNoInverse"}}

\* ------------------------------------------------------------------------
\* C26: the representation-converting initiators
\* ------------------------------------------------------------------------
\* the classes of state the wrapped initiators put on a track
InnerTypes == {"GaussianStateUpdate", "GaussianStatePrediction"}

\* the class of state the outermost converting initiator writes
ConvertedType ==
    CASE wrappers[Len(wrappers)] = "GaussianParticleInitiator" -> "ParticleStateUpdate"
      [] wrappers[Len(wrappers)] = "GaussianMixtureInitiator" -> "GaussianMixtureUpdate"
      [] wrappers[Len(wrappers)] = "ASDGaussianInitiator" -> "ASDGaussianStateUpdate"
      [] wrappers[Len(wrappers)] = "EnsembleInitiator" -> "EnsembleStateUpdate"
      [] OTHER -> "GaussianState"

\* C26: every track a converting initiator returns has its final state in the
\* new representation and every earlier state as the wrapped initiator made
\* it, also when the track has several states.
C26_OnlyFinalStateReplaced ==
    (wrappers # <<>> /\ ini_exc = "none") =>
        \A r \in sure_tracks :
            LET states == store[r].states
            IN /\ states[Len(states)].type = ConvertedType
               /\ \A i \in 1..(Len(states) - 1) : states[i].type \in InnerTypes

\* ------------------------------------------------------------------------
\* C27: the initial covariance
\* ------------------------------------------------------------------------
\* the prior covariance without the entries of the mapped rows and columns
ZeroedOnMapped(m, mapping) ==
    [i \in Dims |-> [j \in Dims |-> IF i \in mapping \/ j \in mapping THEN 0 ELSE m[i][j]]]

\* C27: the covariance of a track's first state is the propagated measurement
\* covariance, plus the prior covariance without every entry whose row or
\* column is a mapped dimension, plus diag_load on the diagonal (nothing when
\* diag_load is 0).
C27_CovarianceSum ==
    cv_pc = "done" =>
        C0 = MAdd(MAdd(Propagated(mapped_dimensions, noise),
                       ZeroedOnMapped(prior_covar, mapped_dimensions)),
                  Diag(cv_load))

\* ------------------------------------------------------------------------
\* C28: attribute lookup on a platform
\* ------------------------------------------------------------------------
\* a lookup has been made
LookedUp == outcome.kind \notin {"none", "idle"}

\* the controller has the attribute looked up
OnController == has_controller /\ controller[looked_up] = "value"

\* the controller has no such attribute (or there is no controller)
NotOnController == ~has_controller \/ controller[looked_up] = "AttributeError"

\* C28: a lookup returns the platform's own attribute when it has one;
\* otherwise, for a name without a leading underscore, the controller's
\* attribute of that name; when neither has it, or the name has a leading
\* underscore, the platform's own AttributeError is raised, and no
\* AttributeError ever comes from the controller.
C28_ProxiedLookup ==
    LookedUp =>
        /\ own[looked_up] = "value" => outcome = [kind |-> "value", from |-> "platform"]
        /\ (own[looked_up] # "value" /\ ~StartsWithUnderscore(looked_up) /\ OnController)
              => outcome = [kind |-> "value", from |-> "controller"]
        /\ (own[looked_up] # "value" /\ (StartsWithUnderscore(looked_up) \/ NotOnController))
              => outcome = [kind |-> "AttributeError", from |-> "platform"]
        /\ outcome.kind = "AttributeError" => outcome.from = "platform"

C28_Witness ==
    /\ LookedUp
    /\ StartsWithUnderscore(looked_up)
    /\ own[looked_up] # "value"
    /\ OnController
    /\ outcome = [kind |-> "AttributeError", from |-> "platform"]

\* ------------------------------------------------------------------------
\* C29, C30: promotion and the holding set, for min_points of at least 2
\* ------------------------------------------------------------------------
\* C29: with updates_only set and min_points of at least 2, every track a call
\* returns was held when the call started, was given a hypothesis with a
\* measurement in it, and ends in the Update that this call appended.
C29_PromotedOnAssociation ==
    (updates_only /\ min_points >= 2 /\ calls > 0) =>
        \A r \in sure_tracks :
            LET states == store[r].states
            IN /\ r \in held_before
               /\ last_call.associations[r] # Missed
               /\ IsUpdate(states[Len(states)])
               /\ states[Len(states)].call = calls

C29_Witness ==
    /\ updates_only
    /\ min_points >= 2
    /\ \E r \in sure_tracks :
          \E i \in DOMAIN store[r].states : ~IsUpdate(store[r].states[i])

\* C30: with min_points of at least 2, after every call each held track has
\* fewer counted states than min_points, and no track a call has returned is
\* held.
C30_HeldBelowMinPoints ==
    min_points >= 2 =>
        /\ \A r \in holding_tracks : Counted(store[r].states) < min_points
        /\ holding_tracks \cap (sure_tracks \cup released) = {}

C30_Witness ==
    /\ min_points >= 2
    /\ sure_tracks # {}
    /\ \E r \in holding_tracks :
          /\ Len(store[r].states) >= 2
          /\ Counted(store[r].states) = min_points - 1

====
